---- MODULE Spec2Model ----
(***************************************************************************)
(* The placement validation loop of                                        *)
(* src/rpdiff/data_gen/rel_demo_aug/proc_gen_rel_demos.py (function main). *)
(*                                                                         *)
(* Lengths are integers in units of 0.05 (0.15 is 3 units, 0.2 is 4).      *)
(* Rotations are the rotations of the cube (3x3 matrices with entries      *)
(* -1, 0, 1); the sampled orientations of the experiment are drawn from    *)
(* them, and every product and inverse of the loop stays inside them.      *)
(* A quaternion component is a pair <<a, b>> standing for (a + b*sqrt2)/2, *)
(* which is exact for every rotation of the cube.                          *)
(***************************************************************************)
EXTENDS Integers, Sequences, FiniteSets, TLC

\* ------------------------------------------------------------------ bounds

\* args.num_iterations of the modelled runs (the program's default is 100).
NumIterations == 2
\* How many times the process is started on the same demo directory.
MaxRuns == 2
\* How many contact points a contact query reports at most.
MaxContacts == 1
\* How many points one camera contributes to a small test cloud.
MaxCamPts == 2
\* How many far points a synthetic cloud has (it has 19 near points per far one).
MaxFar == 2

\* ------------------------------------------------------- program constants

\* --upright_ori_diff_thresh, in degrees (np.deg2rad(15)).
UprightThreshDeg == 15
\* The outlier radius of the fusion, 0.2, in units of 0.05.
OutlierRadius == 4
\* The clearance of the upside-down parent, 0.15, in units of 0.05.
UpsideDownClearance == 3

\* ---------------------------------------------------------------- vectors

Vec(x, y, z) == <<x, y, z>>
VAdd(u, v) == <<u[1] + v[1], u[2] + v[2], u[3] + v[3]>>
VNeg(u) == <<-u[1], -u[2], -u[3]>>
Dot(u, v) == u[1] * v[1] + u[2] * v[2] + u[3] * v[3]

\* 3x3 matrices as three rows.
Col(M, j) == <<M[1][j], M[2][j], M[3][j]>>
MatVec(M, v) == <<Dot(M[1], v), Dot(M[2], v), Dot(M[3], v)>>
MatMul3(A, B) ==
  [i \in 1..3 |-> [j \in 1..3 |-> Dot(A[i], Col(B, j))]]
Transpose3(M) == [i \in 1..3 |-> Col(M, i)]
Eye3 == <<<<1, 0, 0>>, <<0, 1, 0>>, <<0, 0, 1>>>>
Trace3(M) == M[1][1] + M[2][2] + M[3][3]

\* A 4x4 homogeneous matrix: its rotation block and its translation column.
Mat4(R, t) == [rot |-> R, pos |-> t]
Eye4 == Mat4(Eye3, <<0, 0, 0>>)
\* np.matmul of two homogeneous matrices.
matmul(A, B) == Mat4(MatMul3(A.rot, B.rot), VAdd(MatVec(A.rot, B.pos), A.pos))
\* A faulty variant: the rotation block is inverted and the translation kept.
inv_rotation_only(A) == Mat4(Transpose3(A.rot), A.pos)
\* np.linalg.inv of a homogeneous matrix with an orthonormal rotation block.
inv(A) == Mat4(Transpose3(A.rot), VNeg(MatVec(Transpose3(A.rot), A.pos)))

\* ------------------------------------------------------------ quaternions

\* Components (a + b*sqrt2)/2 as <<a, b>>; a quaternion is <<x, y, z, w>>.
QZero == <<0, 0>>
QOne == <<2, 0>>
QHalfSqrt2 == <<0, 1>>
\* The rational part of 4*c*d, for components c and d.
QProd(c, d) == c[1] * d[1] + 2 * c[2] * d[2]

\* common.quat2rot: the rotation matrix of a unit quaternion.
quat2rot(q) ==
  LET x == q[1]
      y == q[2]
      z == q[3]
      w == q[4]
      Two(c1, d1, s, c2, d2) == (QProd(c1, d1) + s * QProd(c2, d2)) \div 2
  IN  << << 1 - Two(y, y, 1, z, z), Two(x, y, -1, z, w), Two(x, z, 1, y, w) >>,
         << Two(x, y, 1, z, w), 1 - Two(x, x, 1, z, z), Two(y, z, -1, x, w) >>,
         << Two(x, z, -1, y, w), Two(y, z, 1, x, w), 1 - Two(x, x, 1, y, y) >> >>

\* common.rot2quat: the largest of the diagonal entries and the trace picks
\* the component computed first; the result is normalised, its sign is kept.
rot2quat(R) ==
  LET tr == Trace3(R)
      dec == <<R[1][1], R[2][2], R[3][3], tr>>
      best == CHOOSE c \in 1..4 :
                /\ \A d \in 1..4 : dec[d] <= dec[c]
                /\ \A d \in 1..(c - 1) : dec[d] < dec[c]
      i == best
      j == (i % 3) + 1
      k == (j % 3) + 1
      raw == IF best = 4
             THEN <<R[3][2] - R[2][3], R[1][3] - R[3][1], R[2][1] - R[1][2], 1 + tr>>
             ELSE [c \in 1..4 |->
                     IF c = i THEN 1 - tr + 2 * R[i][i]
                     ELSE IF c = j THEN R[j][i] + R[i][j]
                     ELSE IF c = k THEN R[k][i] + R[i][k]
                     ELSE R[k][j] - R[j][k]]
      n2 == raw[1] * raw[1] + raw[2] * raw[2] + raw[3] * raw[3] + raw[4] * raw[4]
  IN  [c \in 1..4 |->
         IF n2 = 16 THEN <<raw[c] \div 2, 0>>
         ELSE IF n2 = 4 THEN <<raw[c], 0>>
         ELSE <<0, raw[c] \div 2>>]

\* A pose list: position and orientation quaternion (pos + ori in the code).
PoseList(p, q) == [pos |-> p, ori |-> q]
\* util.matrix_from_pose(util.list2pose_stamped(pose)).
matrix_from_pose(pose) == Mat4(quat2rot(pose.ori), pose.pos)
\* util.pose_stamped2list(util.pose_from_matrix(mat)).
pose_from_matrix(mat) == PoseList(mat.pos, rot2quat(mat.rot))
\* util.unit_pose().
unit_pose == PoseList(<<0, 0, 0>>, <<QZero, QZero, QZero, QOne>>)

\* ------------------------------------------------------------ experiment

\* The constants of the experiment, in units of 0.05.
\* cfg.TABLE_Z, the height objects are loaded at.
TableZ == 20

\* Rotations used below: a quarter turn about x, about z, and a half turn
\* about x (common.euler2rot([np.pi, 0, 0])).
RotX90 == <<<<1, 0, 0>>, <<0, 0, -1>>, <<0, 1, 0>>>>
RotZ90 == <<<<0, -1, 0>>, <<1, 0, 0>>, <<0, 0, 1>>>>
RotX180 == <<<<1, 0, 0>>, <<0, -1, 0>>, <<0, 0, -1>>>>

\* upright_orientation_dict: euler2quat([0, 0, 0]) for racks, cuboids and
\* containers, euler2quat([np.pi/2, 0, 0]) for mugs, bottles and bowls.
upright_orientation_dict(class) ==
  IF class \in {"mug", "bottle", "bowl"}
  THEN <<QHalfSqrt2, QZero, QZero, QHalfSqrt2>>
  ELSE <<QZero, QZero, QZero, QOne>>

\* valid_load_pose_types.
valid_load_pose_types == {"any_pose", "demo_pose", "random_upright"}

\* The (parent_class, child_class) pairs of the modelled runs.
ClassPairs ==
  { <<"box_container", "bottle">>, <<"box_container", "mug">>, <<"mug", "bottle">> }

\* The two roles, in the order of pcl.
pcl == <<"parent", "child">>
Roles == {"parent", "child"}

\* The cameras of cams.cams, in order.
Cams == <<1, 2>>

\* The positions objects are sampled at: x in [0.3, 0.4], parent y in
\* [0.2, 0.25], child y in [-0.25, -0.2], z = table_z.
SamplePos(pc) == IF pc = "parent" THEN <<7, 4, TableZ>> ELSE <<6, -5, TableZ>>

\* The orientations a role can be loaded with: under any_pose a tilted one,
\* otherwise the upright orientation turned by a random yaw.
LoadOrientations(pc, class, load_pose_type) ==
  LET up == quat2rot(upright_orientation_dict(class))
  IN  IF load_pose_type = "any_pose"
      THEN { rot2quat(MatMul3(RotZ90, MatMul3(RotX90, up))) }
      ELSE IF pc = "parent"
           THEN { rot2quat(up), rot2quat(MatMul3(RotZ90, up)) }
           ELSE { rot2quat(MatMul3(RotZ90, up)) }

\* What infer_relation_task can return as relative_trans.
RelTransforms == { Eye4, Mat4(RotZ90, <<1, 9, 2>>) }

\* The angles (degrees) the settled bottle's body y-axis can make with
\* the vertical.
AnglesDeg == {0, 15, 90}

\* Which (role, camera) pairs see the object in the segmentation mask.
VisibilityCases ==
  { [parent |-> {1, 2}, child |-> {1, 2}],
    [parent |-> {},     child |-> {1, 2}],
    [parent |-> {2},    child |-> {}] }

\* The cropped points camera cam sees of a body at position pos; the second
\* camera's mask of the parent also catches a far point.
CamPoints(pc, cam, pos) ==
  IF cam = 1 THEN << pos, VAdd(pos, <<1, 0, 0>>) >>
  ELSE IF pc = "parent" THEN << VAdd(pos, <<0, 1, 0>>), VAdd(pos, <<0, 0, 9>>) >>
  ELSE << VAdd(pos, <<0, 1, 0>>) >>

\* ------------------------------------------------------------------ state

VARIABLES
  run,                  \* which start of the process this is (1, 2, ...)
  proc,                 \* "running", "exited", "crashed" or "interrupted"
  exception,            \* the exception that ended the process, or "none"
  pc,                   \* the position of main() in the trial loop
  args,                 \* the command line of the run
  iteration,            \* the loop variable of the trial loop
  body_pose,            \* simulator: the pose of each loaded body
  step_sim,             \* simulator: TRUE while stepping is held (manual)
  rec_run_event,        \* the run event of the mirror thread
  pcd_pts,              \* pc_obs_info['pcd_pts']: per role, one array per camera
  pcd,                  \* pc_obs_info['pcd']: the fused cloud of each role
  start_parent_pose,    \* the start-pose snapshot of the parent
  start_child_pose,     \* the start-pose snapshot of the child
  start_pose_mat,       \* start_parent_pose_mat and start_child_pose_mat, by role
  relative_trans,       \* what infer_relation_task returned
  final_child_pose_mat,
  final_parent_pose,
  final_child_pose,
  final_parent_pcd,
  final_child_pcd,
  parent_upside_down_pose_list,
  final_child_pose_upside_down,
  obj_surf_contacts,    \* the contact points of the first query
  ud_obj_surf_contacts, \* the contact points of the upside-down query
  success_crit_dict,    \* criterion name -> boolean
  place_success,
  place_success_list,
  current_success_rate, \* results_txt_dict['current_success_rate']
  demo_files,           \* the demo directory: trial index -> record file
  mc_keyframe,          \* mirror thread: where main() was at its last keyframe
  mc_pc,                \* mirror thread: its position in pb2mc_update
  rec_stop_event,       \* the stop event of the mirror thread
  constraint,           \* simulator: per role, the pose a world constraint holds it at
  settled               \* simulator: a settle interval has passed with stepping released
                        \* and no body has been reset since

mcVars == <<mc_keyframe, mc_pc, rec_stop_event>>
stepVars == <<constraint, settled>>
NoConstraint == [parent |-> <<>>, child |-> <<>>]
simVars == <<body_pose, step_sim, rec_run_event>>
obsVars == <<pcd_pts, pcd, start_parent_pose, start_child_pose, start_pose_mat>>
placeVars ==
  <<relative_trans, final_child_pose_mat, final_parent_pose, final_child_pose,
    final_parent_pcd, final_child_pcd>>
stressVars == <<parent_upside_down_pose_list, final_child_pose_upside_down>>
evalVars == <<obj_surf_contacts, ud_obj_surf_contacts, success_crit_dict, place_success>>
statVars == <<place_success_list, current_success_rate>>
vars ==
  <<run, proc, exception, pc, args, iteration, simVars, obsVars, placeVars, stressVars,
    evalVars, statVars, demo_files, mc_keyframe, mc_pc, rec_stop_event,
    constraint, settled>>

\* A value not assigned yet in the trial.
Unset == <<>>
\* The empty dict.
EmptyDict == [k \in {} |-> FALSE]

\* ----------------------------------------------------------------- helpers

\* The sum of a sequence of vectors.
RECURSIVE VSum(_)
VSum(pts) == IF pts = <<>> THEN <<0, 0, 0>> ELSE VAdd(Head(pts), VSum(Tail(pts)))

\* np.concatenate of a list of arrays.
RECURSIVE Concat(_)
Concat(arrays) == IF arrays = <<>> THEN <<>> ELSE Head(arrays) \o Concat(Tail(arrays))

\* The rows of an array picked by a predicate, in order (array[inliers]).
RECURSIVE SelectPts(_, _, _)
SelectPts(pts, sum, n) ==
  IF pts = <<>> THEN <<>>
  ELSE LET p == Head(pts)
           d == <<n * p[1] - sum[1], n * p[2] - sum[2], n * p[3] - sum[3]>>
           rest == SelectPts(Tail(pts), sum, n)
       IN  IF Dot(d, d) < OutlierRadius * OutlierRadius * n * n
           THEN <<p>> \o rest ELSE rest

\* A faulty variant: the filter is applied again around the mean of the
\* points the first pass kept.
FusePcd_twice(obj_pcd_pts) ==
  LET target_obj_pcd_obs == Concat(obj_pcd_pts)
      once == SelectPts(target_obj_pcd_obs, VSum(target_obj_pcd_obs),
                        Len(target_obj_pcd_obs))
  IN  SelectPts(once, VSum(once), Len(once))

\* A faulty variant: the inlier selection is left out.
FusePcd_unfiltered(obj_pcd_pts) == Concat(obj_pcd_pts)

\* The fusion of one role's per-camera arrays: concatenate, take the mean,
\* keep the points nearer than the radius to it (distances compared as
\* n*|p - mean| < n*radius, squared, with n the number of points).
FusePcd(obj_pcd_pts) ==
  LET target_obj_pcd_obs == Concat(obj_pcd_pts)
      n == Len(target_obj_pcd_obs)
  IN  SelectPts(target_obj_pcd_obs, VSum(target_obj_pcd_obs), n)

\* util.transform_pcd: every point of the cloud through the transform.
transform_pcd(cloud, T) == [i \in 1..Len(cloud) |-> VAdd(MatVec(T.rot, cloud[i]), T.pos)]

\* util.convert_reference_frame.
convert_reference_frame(pose_source, pose_frame_target, pose_frame_source) ==
  pose_from_matrix(
    matmul(matrix_from_pose(pose_frame_target),
           matmul(inv(matrix_from_pose(pose_frame_source)),
                  matrix_from_pose(pose_source))))

\* np.all(np.asarray(list(d.values()))).
AllValues(d) == \A k \in DOMAIN d : d[k]

\* sum(l): how many entries of a list of booleans are true.
RECURSIVE SumTrue(_)
SumTrue(l) == IF l = <<>> THEN 0 ELSE (IF Head(l) THEN 1 ELSE 0) + SumTrue(Tail(l))

\* sum(l) / float(len(l)), in thousandths.
SuccessRate(l) == (SumTrue(l) * 1000) \div Len(l)

\* d[k] = v on a dict.
DictSet(d, k, v) == [x \in DOMAIN d \cup {k} |-> IF x = k THEN v ELSE d[x]]

\* ------------------------------------------------------------ criteria

\* touching_surf = len(obj_surf_contacts) > 0.
touching_surf(contacts) == contacts > 0

\* A faulty variant: the negation is forgotten.
fell_off_upside_down_unnegated(ud_contacts) == ud_contacts > 0

\* success_crit_dict['fell_off_upside_down'] = not ud_touching_surf.
fell_off_upside_down(ud_contacts) == ~(ud_contacts > 0)

\* bottle_upright = angle_from_upright < args.upright_ori_diff_thresh.
bottle_upright(angle_from_upright) == angle_from_upright < UprightThreshDeg

\* A faulty variant: either class alone brings the bottle criterion in.
IsBottleOrContainer(parent_class, child_class) ==
  parent_class = "box_container" \/ child_class = "bottle"

\* if parent_class == 'box_container' and child_class == 'bottle'.
IsBottleInContainer(parent_class, child_class) ==
  parent_class = "box_container" /\ child_class = "bottle"

\* The success criteria of the first evaluation, in a fresh dict.
FirstPassCriteria(contacts, angle) ==
  LET d == DictSet(EmptyDict, "touching_surf", touching_surf(contacts))
  IN  IF IsBottleInContainer(args.parent_class, args.child_class)
      THEN DictSet(d, "bottle_upright", bottle_upright(angle))
      ELSE d

\* A faulty variant: the child's final cloud is saved untransformed.
aug_save_dict_start_cloud ==
  [ success |-> place_success,
    multi_obj_names |-> [parent |-> args.parent_class, child |-> args.child_class],
    multi_obj_start_pcd |-> [parent |-> pcd.parent, child |-> pcd.child],
    multi_obj_final_pcd |-> [parent |-> final_parent_pcd, child |-> pcd.child],
    multi_obj_start_obj_pose |-> [parent |-> start_parent_pose, child |-> start_child_pose],
    multi_obj_final_obj_pose |-> [parent |-> final_parent_pose, child |-> final_child_pose],
    multi_obj_part_pose_dict |-> "part_pose_dict" ]

\* A faulty variant: the final clouds are saved under each other's role.
aug_save_dict_final_pcd_roles_swapped ==
  [ success |-> place_success,
    multi_obj_names |-> [parent |-> args.parent_class, child |-> args.child_class],
    multi_obj_start_pcd |-> [parent |-> pcd.parent, child |-> pcd.child],
    multi_obj_final_pcd |-> [parent |-> final_child_pcd, child |-> final_parent_pcd],
    grasp_pose_world |-> "None",
    place_pose_world |-> "None",
    grasp_joints |-> "None",
    place_joints |-> "None",
    ee_link |-> "None",
    gripper_type |-> "None",
    pcd_pts |-> "None",
    processed_pcd |-> "None",
    rgb_imgs |-> "None",
    depth_imgs |-> "None",
    cam_intrinsics |-> Cams,
    cam_poses |-> Cams,
    multi_object_ids |-> "ids",
    real_sim |-> "sim",
    multi_obj_start_obj_pose |-> [parent |-> start_parent_pose, child |-> start_child_pose],
    multi_obj_final_obj_pose |-> [parent |-> final_parent_pose, child |-> final_child_pose],
    multi_obj_mesh_file |-> "mesh_file",
    multi_obj_mesh_file_dec |-> "mesh_file_dec",
    multi_obj_part_pose_dict |-> "part_pose_dict" ]

\* aug_save_dict, the content of a demonstration record.
aug_save_dict ==
  [ success |-> place_success,
    multi_obj_names |-> [parent |-> args.parent_class, child |-> args.child_class],
    multi_obj_start_pcd |-> [parent |-> pcd.parent, child |-> pcd.child],
    multi_obj_final_pcd |-> [parent |-> final_parent_pcd, child |-> final_child_pcd],
    grasp_pose_world |-> "None",
    place_pose_world |-> "None",
    grasp_joints |-> "None",
    place_joints |-> "None",
    ee_link |-> "None",
    gripper_type |-> "None",
    pcd_pts |-> "None",
    processed_pcd |-> "None",
    rgb_imgs |-> "None",
    depth_imgs |-> "None",
    cam_intrinsics |-> Cams,
    cam_poses |-> Cams,
    multi_object_ids |-> "ids",
    real_sim |-> "sim",
    multi_obj_start_obj_pose |-> [parent |-> start_parent_pose, child |-> start_child_pose],
    multi_obj_final_obj_pose |-> [parent |-> final_parent_pose, child |-> final_child_pose],
    multi_obj_mesh_file |-> "mesh_file",
    multi_obj_mesh_file_dec |-> "mesh_file_dec",
    multi_obj_part_pose_dict |-> "part_pose_dict" ]

\* A faulty variant: the file name leaves the trial index out.
savez_one_name(files, index, content) ==
  [i \in DOMAIN files \cup {0} |->
     IF i = 0 THEN [run |-> run, data |-> content] ELSE files[i]]

\* demo_aug_<iteration>.npz as np.savez leaves it: the file of that name is
\* created or replaced, the others stay.
savez(files, index, content) ==
  [i \in DOMAIN files \cup {index} |->
     IF i = index THEN [run |-> run, data |-> content] ELSE files[i]]

\* ------------------------------------------------------------------- init

\* The (parent, child) load pose types of the modelled runs; demo_pose is
\* the default of both.
LoadPoseTypePairs ==
  { <<"demo_pose", "demo_pose">>, <<"random_upright", "demo_pose">>,
    <<"random_upright", "random_upright">>, <<"any_pose", "any_pose">> }

ArgSets ==
  { [parent_class |-> cp[1], child_class |-> cp[2],
     parent_load_pose_type |-> lp[1], child_load_pose_type |-> lp[2],
     start_iteration |-> s, num_iterations |-> NumIterations] :
       cp \in ClassPairs, lp \in LoadPoseTypePairs, s \in 0..(NumIterations - 1) }

\* The trial's variables before the trial assigns them.
TrialUnset ==
  /\ pcd_pts' = Unset
  /\ pcd' = Unset
  /\ start_parent_pose' = Unset
  /\ start_child_pose' = Unset
  /\ start_pose_mat' = Unset
  /\ relative_trans' = Unset
  /\ final_child_pose_mat' = Unset
  /\ final_parent_pose' = Unset
  /\ final_child_pose' = Unset
  /\ final_parent_pcd' = Unset
  /\ final_child_pcd' = Unset
  /\ parent_upside_down_pose_list' = Unset
  /\ final_child_pose_upside_down' = Unset
  /\ obj_surf_contacts' = 0
  /\ ud_obj_surf_contacts' = 0
  /\ success_crit_dict' = EmptyDict
  /\ place_success' = FALSE
  /\ constraint' = NoConstraint
  /\ settled' = FALSE

Init ==
  /\ run = 1
  /\ proc = "running"
  /\ exception = "none"
  /\ pc = "setup"
  /\ args \in ArgSets
  /\ iteration = args.start_iteration
  /\ body_pose = [parent |-> Unset, child |-> Unset]
  /\ step_sim = FALSE
  /\ rec_run_event = TRUE
  /\ pcd_pts = Unset
  /\ pcd = Unset
  /\ start_parent_pose = Unset
  /\ start_child_pose = Unset
  /\ start_pose_mat = Unset
  /\ relative_trans = Unset
  /\ final_child_pose_mat = Unset
  /\ final_parent_pose = Unset
  /\ final_child_pose = Unset
  /\ final_parent_pcd = Unset
  /\ final_child_pcd = Unset
  /\ parent_upside_down_pose_list = Unset
  /\ final_child_pose_upside_down = Unset
  /\ obj_surf_contacts = 0
  /\ ud_obj_surf_contacts = 0
  /\ success_crit_dict = EmptyDict
  /\ place_success = FALSE
  /\ place_success_list = <<>>
  /\ current_success_rate = 0
  /\ demo_files = EmptyDict
  /\ mc_keyframe = "none"
  /\ mc_pc = "loop"
  /\ rec_stop_event = FALSE
  /\ constraint = NoConstraint
  /\ settled = FALSE

\* ---------------------------------------------------------------- actions

Running(at) == proc = "running" /\ pc = at

\* for iteration in range(args.start_iteration, args.num_iterations): the
\* range is exhausted and main() returns.
Finish ==
  /\ Running("setup")
  /\ iteration >= args.num_iterations
  /\ proc' = "exited"
  /\ UNCHANGED <<run, exception, pc, args, iteration, simVars, obsVars, placeVars, stressVars,
                 evalVars, statVars, demo_files>>
  /\ UNCHANGED <<mcVars, stepVars>>

\* pc_master_dict[role]: the class and the load pose type of a role.
pc_master_dict(role) ==
  IF role = "parent"
  THEN [class |-> args.parent_class, load_pose_type |-> args.parent_load_pose_type]
  ELSE [class |-> args.child_class, load_pose_type |-> args.child_load_pose_type]

\* Setting up the trial: the objects are sampled and loaded one after the
\* other in the order of pcl, one step per object (load_geom, register_object,
\* the dynamics and a sleep). The 'demo_pose' branch reads
\* pc_master_dict[pc]['demo_start_poses'], a key nothing sets: a KeyError,
\* which nothing catches.
Setup ==
  /\ proc = "running"
  /\ \E i \in 1..Len(pcl) :
       LET role == pcl[i]
       IN  /\ pc = (IF i = 1 THEN "setup" ELSE "setup_child")
           /\ i = 1 => iteration < args.num_iterations
           /\ IF pc_master_dict(role).load_pose_type = "demo_pose"
              THEN /\ proc' = "crashed"
                   /\ exception' = "KeyError"
                   /\ UNCHANGED <<pc, body_pose, constraint>>
              ELSE \E ori \in LoadOrientations(role, pc_master_dict(role).class,
                                              pc_master_dict(role).load_pose_type) :
                     /\ body_pose' =
                          [body_pose EXCEPT ![role] = PoseList(SamplePos(role), ori)]
                     /\ pc' = (IF i = 1 THEN "setup_child" ELSE "sense")
                     /\ constraint' =
                          [constraint EXCEPT ![role] =
                             IF pc_master_dict(role).load_pose_type = "any_pose" /\ role = "child"
                             THEN body_pose'[role] ELSE Unset]
                     /\ UNCHANGED <<proc, exception>>
  /\ UNCHANGED <<run, args, iteration, step_sim, rec_run_event, obsVars, placeVars,
                 stressVars, evalVars, statVars, demo_files>>
  /\ UNCHANGED <<mcVars, settled>>

\* The mirror thread, pb2mc_update, one action per statement. The thread is a
\* daemon: it runs only while the process does.
\* while not stop_event.is_set(): the test, when the event is not set.
pb2mc_loop_test ==
  /\ proc = "running"
  /\ mc_pc = "loop"
  /\ ~rec_stop_event
  /\ mc_pc' = "wait"
  /\ UNCHANGED <<run, proc, exception, pc, args, iteration, simVars, obsVars, placeVars,
                 stressVars, evalVars, statVars, demo_files, mc_keyframe, rec_stop_event, stepVars>>

\* The same test when the stop event is set: the loop and the thread end.
pb2mc_exit ==
  /\ proc = "running"
  /\ mc_pc = "loop"
  /\ rec_stop_event
  /\ mc_pc' = "done"
  /\ UNCHANGED <<run, proc, exception, pc, args, iteration, simVars, obsVars, placeVars,
                 stressVars, evalVars, statVars, demo_files, mc_keyframe, rec_stop_event, stepVars>>

\* run_event.wait(): returns once the run event is set.
pb2mc_wait ==
  /\ proc = "running"
  /\ mc_pc = "wait"
  /\ rec_run_event
  /\ mc_pc' = "add_keyframe"
  /\ UNCHANGED <<run, proc, exception, pc, args, iteration, simVars, obsVars, placeVars,
                 stressVars, evalVars, statVars, demo_files, mc_keyframe, rec_stop_event, stepVars>>

\* recorder.add_keyframe(): reads the simulator's bodies as they are now.
pb2mc_add_keyframe ==
  /\ proc = "running"
  /\ mc_pc = "add_keyframe"
  /\ mc_keyframe' = pc
  /\ mc_pc' = "update_meshcat"
  /\ UNCHANGED <<run, proc, exception, pc, args, iteration, simVars, obsVars, placeVars,
                 stressVars, evalVars, statVars, demo_files, rec_stop_event, stepVars>>

\* recorder.update_meshcat_current_state(mc_vis); time.sleep(1/230.0).
pb2mc_update_meshcat ==
  /\ proc = "running"
  /\ mc_pc = "update_meshcat"
  /\ mc_pc' = "loop"
  /\ UNCHANGED <<run, proc, exception, pc, args, iteration, simVars, obsVars, placeVars,
                 stressVars, evalVars, statVars, demo_files, mc_keyframe, rec_stop_event, stepVars>>

\* The main loop around infer_relation_task, statement by statement:
\* pause_mc_thread(True) clears the run event and returns.
PauseBeforeInference ==
  /\ Running("infer")
  /\ rec_run_event' = FALSE
  /\ pc' = "inferring"
  /\ UNCHANGED <<run, proc, exception, args, iteration, body_pose, step_sim, obsVars,
                 placeVars, stressVars, evalVars, statVars, demo_files>>
  /\ UNCHANGED <<mcVars, stepVars>>

\* infer_relation_task(...) returns a relative transform and
\* pause_mc_thread(False) sets the run event, or the call raises.
InferAndResume(transforms) ==
  /\ Running("inferring")
  /\ \/ /\ relative_trans' \in transforms
        /\ rec_run_event' = TRUE
        /\ pc' = "compose"
        /\ UNCHANGED <<proc, exception>>
     \/ /\ proc' = "crashed"
        /\ exception' = "Exception"
        /\ UNCHANGED <<pc, relative_trans, rec_run_event>>
  /\ UNCHANGED <<run, args, iteration, body_pose, step_sim, obsVars,
                 final_child_pose_mat, final_parent_pose, final_child_pose,
                 final_parent_pcd, final_child_pcd, stressVars, evalVars, statVars,
                 demo_files>>
  /\ UNCHANGED <<mcVars, stepVars>>

\* The end of the loop body, statement by statement: pause_mc_thread(True)
\* clears the run event and returns.
PauseBeforeRemoval ==
  /\ Running("cleanup")
  /\ rec_run_event' = FALSE
  /\ pc' = "removing"
  /\ UNCHANGED <<run, proc, exception, args, iteration, body_pose, step_sim, obsVars,
                 placeVars, stressVars, evalVars, statVars, demo_files>>
  /\ UNCHANGED <<mcVars, stepVars>>

\* Both bodies are removed from the simulator and the recorder, and
\* pause_mc_thread(False) sets the run event.
RemoveAndResume ==
  /\ Running("removing")
  /\ body_pose' = [parent |-> Unset, child |-> Unset]
  /\ rec_run_event' = TRUE
  /\ iteration' = iteration + 1
  /\ pc' = "setup"
  /\ TrialUnset
  /\ UNCHANGED <<run, proc, exception, args, step_sim, statVars, demo_files>>
  /\ UNCHANGED mcVars

\* The cameras are read, each role's points are fused, and the start poses
\* are read from the simulator.
Sense(cases) ==
  /\ Running("sense")
  /\ \E vis \in cases :
       pcd_pts' =
         [role \in Roles |->
            [c \in 1..Len(Cams) |->
               IF Cams[c] \in vis[role]
               THEN CamPoints(role, Cams[c], body_pose[role].pos) ELSE <<>>]]
  /\ pcd' = [role \in Roles |-> FusePcd(pcd_pts'[role])]
  /\ start_child_pose' = body_pose.child
  /\ start_parent_pose' = body_pose.parent
  /\ start_pose_mat' = [role \in Roles |-> matrix_from_pose(body_pose[role])]
  /\ pc' = "infer"
  /\ UNCHANGED <<run, proc, exception, args, iteration, simVars, placeVars, stressVars,
                 evalVars, statVars, demo_files>>
  /\ UNCHANGED <<mcVars, stepVars>>

\* pause_mc_thread(True); infer_relation_task(...); pause_mc_thread(False).
\* The call returns a relative transform, or raises; nothing catches it.
InferRelation(transforms) ==
  /\ Running("infer")
  /\ \/ /\ relative_trans' \in transforms
        /\ pc' = "compose"
        /\ UNCHANGED <<proc, exception, rec_run_event>>
     \/ /\ proc' = "crashed"
        /\ exception' = "Exception"
        /\ rec_run_event' = FALSE
        /\ UNCHANGED <<pc, relative_trans>>
  /\ UNCHANGED <<run, args, iteration, body_pose, step_sim, obsVars,
                 final_child_pose_mat, final_parent_pose, final_child_pose,
                 final_parent_pcd, final_child_pcd, stressVars, evalVars, statVars,
                 demo_files>>
  /\ UNCHANGED <<mcVars, stepVars>>

\* The fusion loop on its own: each role's per-camera arrays, as the camera
\* loop left them in pc_obs_info['pcd_pts'], are fused into pc_obs_info['pcd'].
Fusion ==
  /\ Running("fuse")
  /\ pcd' = [role \in Roles |-> FusePcd(pcd_pts[role])]
  /\ pc' = "fused"
  /\ UNCHANGED <<run, proc, exception, args, iteration, simVars, pcd_pts, start_parent_pose,
                 start_child_pose, start_pose_mat, placeVars, stressVars, evalVars, statVars, demo_files>>
  /\ UNCHANGED <<mcVars, stepVars>>

\* The simulator runs in real time (create_pybullet_client(realtime=True))
\* whenever stepping is not held: while main() waits for the relation
\* inference, a body that no constraint holds can still move on the table.
\* (Only a child loaded under any_pose is constrained to the world.)
Settle ==
  /\ Running("infer")
  /\ ~step_sim
  /\ \E role \in Roles :
       /\ ~(role = "child" /\ args.child_load_pose_type = "any_pose")
       /\ body_pose[role] = (IF role = "parent" THEN start_parent_pose ELSE start_child_pose)
       /\ body_pose' = [body_pose EXCEPT ![role].pos = VAdd(@, <<0, 0, -1>>)]
  /\ UNCHANGED <<run, proc, exception, pc, args, iteration, step_sim, rec_run_event,
                 obsVars, placeVars, stressVars, evalVars, statVars, demo_files>>
  /\ UNCHANGED <<mcVars, stepVars>>

\* A faulty variant: the upright pose is built on np.eye(4) and only its
\* rotation is set.
upright_parent_pose_mat_at_origin(start_parent_pose_mat, upright_parent_ori_mat) ==
  Mat4(upright_parent_ori_mat, <<0, 0, 0>>)

\* upright_parent_pose_mat: a copy of the parent's start pose matrix with the
\* rotation block replaced by the class's upright orientation.
upright_parent_pose_mat(start_parent_pose_mat, upright_parent_ori_mat) ==
  Mat4(upright_parent_ori_mat, start_parent_pose_mat.pos)

\* A faulty variant: the two factors in the other order.
relative_upright_pose_mat_swapped(start_parent_pose_mat, upright_parent_ori_mat) ==
  matmul(inv(start_parent_pose_mat),
         upright_parent_pose_mat(start_parent_pose_mat, upright_parent_ori_mat))

\* relative_upright_pose_mat = upright_parent_pose_mat @ inv(start_parent_pose_mat).
relative_upright_pose_mat(start_parent_pose_mat, upright_parent_ori_mat) ==
  matmul(upright_parent_pose_mat(start_parent_pose_mat, upright_parent_ori_mat),
         inv(start_parent_pose_mat))

\* A faulty variant: upright_parent_pose_mat is the snapshot matrix itself, and
\* the assignment to its rotation block writes into the snapshot.
start_parent_pose_mat_written_in_place(snapshot_mat, upright_parent_ori_mat) ==
  Mat4(upright_parent_ori_mat, snapshot_mat.pos)

\* start_parent_pose_mat after upright_parent_pose_mat is built: the rotation
\* block is assigned in a copy.deepcopy of it, which leaves it as it was.
start_parent_pose_mat_after_upright(snapshot_mat, upright_parent_ori_mat) == snapshot_mat

\* The placement: the relative transform on the child's start pose, the
\* upright correction of an any_pose parent, the bodies reset, the final clouds.
Compose ==
  /\ Running("compose")
  /\ LET start_child_pose_mat == start_pose_mat.child
         start_parent_pose_mat == start_pose_mat.parent
         upright_parent_ori_mat ==
           quat2rot(upright_orientation_dict(args.parent_class))
         placed == matmul(relative_trans, start_child_pose_mat)
         any_pose == args.parent_load_pose_type = "any_pose"
         parent_body ==
           IF any_pose
           THEN PoseList(start_parent_pose.pos, rot2quat(upright_parent_ori_mat))
           ELSE body_pose.parent
         child_mat ==
           IF any_pose
           THEN matmul(relative_upright_pose_mat(start_parent_pose_mat,
                                                 upright_parent_ori_mat), placed)
           ELSE placed
     IN  /\ final_child_pose_mat' = child_mat
         /\ final_parent_pose' = parent_body
         /\ final_child_pose' = pose_from_matrix(child_mat)
         /\ body_pose' = [parent |-> parent_body, child |-> pose_from_matrix(child_mat)]
         /\ start_pose_mat' =
              IF any_pose
              THEN [start_pose_mat EXCEPT
                      !.parent = start_parent_pose_mat_after_upright(start_parent_pose_mat,
                                                                    upright_parent_ori_mat)]
              ELSE start_pose_mat
  /\ final_parent_pcd' = pcd.parent
  /\ final_child_pcd' = transform_pcd(pcd.child, relative_trans)
  /\ step_sim' = FALSE
  /\ pc' = "eval1"
  /\ UNCHANGED <<run, proc, exception, args, iteration, rec_run_event, pcd_pts, pcd,
                 start_parent_pose, start_child_pose, relative_trans,
                 stressVars, evalVars, statVars, demo_files>>
  /\ constraint' = NoConstraint
  /\ UNCHANGED <<mcVars, settled>>

\* A faulty variant: the record is written after the first evaluation.
EvaluatePlacementAndSave ==
  /\ Running("eval1")
  /\ \E contacts \in 0..MaxContacts, angle \in AnglesDeg :
       /\ obj_surf_contacts' = contacts
       /\ success_crit_dict' = FirstPassCriteria(contacts, angle)
       /\ demo_files' = IF AllValues(success_crit_dict')
                        THEN savez(demo_files, iteration, success_crit_dict')
                        ELSE demo_files
  /\ pc' = "stress"
  /\ UNCHANGED <<run, proc, exception, args, iteration, simVars, obsVars, placeVars,
                 stressVars, ud_obj_surf_contacts, place_success, statVars>>
  /\ UNCHANGED <<mcVars, stepVars>>

\* The first evaluation, after the settle time: the contact query between
\* child and parent and, for a bottle in a container, the bottle's angle.
EvaluatePlacement ==
  /\ Running("eval1")
  /\ \E contacts \in 0..MaxContacts, angle \in AnglesDeg :
       /\ obj_surf_contacts' = contacts
       /\ success_crit_dict' = FirstPassCriteria(contacts, angle)
  /\ pc' = "stress"
  /\ UNCHANGED <<run, proc, exception, args, iteration, simVars, obsVars, placeVars, stressVars,
                 ud_obj_surf_contacts, place_success, statVars, demo_files>>
  /\ UNCHANGED <<mcVars, stepVars>>

\* A faulty variant: the parent's position is read from the simulator.
upside_down_pose_mat_of_body ==
  Mat4(MatMul3(RotX180, quat2rot(upright_orientation_dict(args.parent_class))),
       VAdd(body_pose.parent.pos, <<0, 0, UpsideDownClearance>>))

\* upside_down_pose_mat: the upright orientation of the parent's class turned
\* by euler2rot([np.pi, 0, 0]), at the parent's start position raised in z.
upside_down_pose_mat ==
  Mat4(MatMul3(RotX180, quat2rot(upright_orientation_dict(args.parent_class))),
       VAdd(start_parent_pose.pos, <<0, 0, UpsideDownClearance>>))

\* final_child_pose_parent: the first conversion of the stress test.
final_child_pose_parent ==
  convert_reference_frame(pose_from_matrix(final_child_pose_mat),
                          pose_from_matrix(start_pose_mat.parent),
                          unit_pose)

\* A faulty variant: the upside-down pose is passed as the target frame and
\* the unit pose as the source frame.
convert_to_upside_down_as_target ==
  convert_reference_frame(final_child_pose_parent,
                          pose_from_matrix(upside_down_pose_mat), unit_pose)

\* The second conversion of the stress test, the value assigned to
\* final_child_pose_upside_down.
convert_to_upside_down ==
  convert_reference_frame(final_child_pose_parent, unit_pose,
                          pose_from_matrix(upside_down_pose_mat))

\* The upside-down check is set up: both bodies reset, the parent fixed
\* upside down and raised, the child placed relative to it.
StressTest ==
  /\ Running("stress")
  /\ parent_upside_down_pose_list' = pose_from_matrix(upside_down_pose_mat)
  /\ final_child_pose_upside_down' = convert_to_upside_down
  /\ body_pose' = [parent |-> parent_upside_down_pose_list',
                   child |-> final_child_pose_upside_down']
  /\ step_sim' = FALSE
  /\ pc' = "eval2"
  /\ UNCHANGED <<run, proc, exception, args, iteration, rec_run_event, obsVars, placeVars,
                 evalVars, statVars, demo_files>>
  /\ constraint' = [parent |-> parent_upside_down_pose_list', child |-> Unset]
  /\ UNCHANGED <<mcVars, settled>>

\* A faulty variant: the second evaluation starts a fresh dict.
EvaluateUpsideDownFreshDict ==
  /\ Running("eval2")
  /\ \E contacts \in 0..MaxContacts :
       /\ ud_obj_surf_contacts' = contacts
       /\ success_crit_dict' =
            DictSet(EmptyDict, "fell_off_upside_down", fell_off_upside_down(contacts))
  /\ pc' = "aggregate"
  /\ UNCHANGED <<run, proc, exception, args, iteration, simVars, obsVars, placeVars,
                 stressVars, obj_surf_contacts, place_success, statVars, demo_files>>
  /\ UNCHANGED <<mcVars, stepVars>>

\* The second evaluation, after the settle time: the contact query between
\* the upside-down parent and the child.
EvaluateUpsideDown ==
  /\ Running("eval2")
  /\ \E contacts \in 0..MaxContacts :
       /\ ud_obj_surf_contacts' = contacts
       /\ success_crit_dict' =
            DictSet(success_crit_dict, "fell_off_upside_down",
                    fell_off_upside_down(contacts))
  /\ pc' = "aggregate"
  /\ UNCHANGED <<run, proc, exception, args, iteration, simVars, obsVars, placeVars, stressVars,
                 obj_surf_contacts, place_success, statVars, demo_files>>
  /\ UNCHANGED <<mcVars, stepVars>>

\* A faulty variant: only successes are appended to the success list.
AggregateSuccessesOnly ==
  /\ Running("aggregate")
  /\ place_success' = AllValues(success_crit_dict)
  /\ place_success_list' = IF place_success' THEN Append(place_success_list, TRUE)
                            ELSE place_success_list
  /\ current_success_rate' = IF place_success_list' = <<>> THEN 0
                              ELSE SuccessRate(place_success_list')
  /\ pc' = "record"
  /\ UNCHANGED <<run, proc, exception, args, iteration, simVars, obsVars, placeVars,
                 stressVars, obj_surf_contacts, ud_obj_surf_contacts, success_crit_dict,
                 demo_files>>
  /\ UNCHANGED <<mcVars, stepVars>>

\* place_success, the success list and the success rate of results.txt.
Aggregate ==
  /\ Running("aggregate")
  /\ place_success' = AllValues(success_crit_dict)
  /\ place_success_list' = Append(place_success_list, place_success')
  /\ current_success_rate' = SuccessRate(place_success_list')
  /\ pc' = "record"
  /\ UNCHANGED <<run, proc, exception, args, iteration, simVars, obsVars, placeVars, stressVars,
                 obj_surf_contacts, ud_obj_surf_contacts, success_crit_dict, demo_files>>
  /\ UNCHANGED <<mcVars, stepVars>>

\* A faulty variant: the record is written whatever place_success is.
RecordDemoUnconditional ==
  /\ Running("record")
  /\ demo_files' = savez(demo_files, iteration, aug_save_dict)
  /\ pc' = "cleanup"
  /\ UNCHANGED <<run, proc, exception, args, iteration, simVars, obsVars, placeVars,
                 stressVars, evalVars, statVars>>
  /\ UNCHANGED <<mcVars, stepVars>>

\* if place_success: np.savez(demo_aug_fname, **aug_save_dict).
RecordDemo ==
  /\ Running("record")
  /\ demo_files' = IF place_success THEN savez(demo_files, iteration, aug_save_dict)
                   ELSE demo_files
  /\ pc' = "cleanup"
  /\ UNCHANGED <<run, proc, exception, args, iteration, simVars, obsVars, placeVars, stressVars,
                 evalVars, statVars>>
  /\ UNCHANGED <<mcVars, stepVars>>

\* The end of the loop body: the mirror thread is paused, both bodies are
\* removed, the thread is resumed; the loop goes to the next index. (The
\* trial's variables are dead from here on: each is assigned again before
\* the next trial reads it, so they are cleared.)
Cleanup ==
  /\ Running("cleanup")
  /\ body_pose' = [parent |-> Unset, child |-> Unset]
  /\ rec_run_event' = TRUE
  /\ iteration' = iteration + 1
  /\ pc' = "setup"
  /\ TrialUnset
  /\ UNCHANGED <<run, proc, exception, args, step_sim, statVars, demo_files>>
  /\ UNCHANGED mcVars

\* SIGINT: util.signal_handler ends the process wherever main() is.
Interrupt ==
  /\ proc = "running"
  /\ proc' = "interrupted"
  /\ UNCHANGED <<run, exception, pc, args, iteration, simVars, obsVars, placeVars, stressVars,
                 evalVars, statVars, demo_files>>
  /\ UNCHANGED <<mcVars, stepVars>>

\* The program is started again with the same experiment names, so on the
\* same demo directory (demo_aug_dir depends on --exp, --rel_demo_exp,
\* --seed and --task_name only); --start_iteration is chosen anew.
Restart ==
  /\ proc # "running"
  /\ run < MaxRuns
  /\ run' = run + 1
  /\ proc' = "running"
  /\ exception' = "none"
  /\ pc' = "setup"
  /\ \E s \in 0..(NumIterations - 1) :
       /\ args' = [args EXCEPT !.start_iteration = s]
       /\ iteration' = s
  /\ body_pose' = [parent |-> Unset, child |-> Unset]
  /\ step_sim' = FALSE
  /\ rec_run_event' = TRUE
  /\ TrialUnset
  /\ place_success_list' = <<>>
  /\ current_success_rate' = 0
  /\ UNCHANGED demo_files
  /\ UNCHANGED mcVars

\* One run of the program on a fresh demo directory.
Next ==
  \/ Setup
  \/ Sense(VisibilityCases)
  \/ InferRelation(RelTransforms)
  \/ Compose
  \/ EvaluatePlacement
  \/ StressTest
  \/ EvaluateUpsideDown
  \/ Aggregate
  \/ RecordDemo
  \/ Cleanup
  \/ Finish
  \/ Interrupt

Spec == Init /\ [][Next]_vars

\* Several runs of the program, one after the other, on the same demo
\* directory; every camera sees both objects.
RunsInit ==
  /\ Init
  /\ args.parent_class = "box_container"
  /\ args.child_class = "bottle"
  /\ args.parent_load_pose_type = args.child_load_pose_type
  /\ args.parent_load_pose_type # "random_upright"

RunsNext ==
  \/ Setup
  \/ Sense({[parent |-> {1, 2}, child |-> {1, 2}]})
  \/ InferRelation(RelTransforms)
  \/ Compose
  \/ EvaluatePlacement
  \/ StressTest
  \/ EvaluateUpsideDown
  \/ Aggregate
  \/ RecordDemo
  \/ Cleanup
  \/ Finish
  \/ Interrupt
  \/ Restart

SpecRuns == RunsInit /\ [][RunsNext]_vars

\* One run in which the simulator's real-time stepping between the start-pose
\* snapshot and the placement is followed; a bottle and a container that
\* load without error, every camera seeing both.
SettleInit ==
  /\ Init
  /\ args.parent_class = "box_container"
  /\ args.child_class = "bottle"
  /\ args.parent_load_pose_type = args.child_load_pose_type
  /\ args.parent_load_pose_type # "demo_pose"
  /\ args.start_iteration = 0

SettleNext ==
  \/ Setup
  \/ Sense({[parent |-> {1, 2}, child |-> {1, 2}]})
  \/ InferRelation(RelTransforms)
  \/ Settle
  \/ Compose
  \/ EvaluatePlacement
  \/ StressTest
  \/ EvaluateUpsideDown
  \/ Aggregate
  \/ RecordDemo
  \/ Cleanup
  \/ Finish
  \/ Interrupt

SpecSettle == SettleInit /\ [][SettleNext]_vars

\* One run with the mirror thread: a bottle and a container that load
\* without error, every camera seeing both.
MirrorInit ==
  /\ Init
  /\ args.parent_class = "box_container"
  /\ args.child_class = "bottle"
  /\ args.parent_load_pose_type = "random_upright"
  /\ args.child_load_pose_type = "random_upright"
  /\ args.start_iteration = 0

MirrorNext ==
  \/ Setup
  \/ Sense({[parent |-> {1, 2}, child |-> {1, 2}]})
  \/ PauseBeforeInference
  \/ InferAndResume({Eye4})
  \/ Compose
  \/ EvaluatePlacement
  \/ StressTest
  \/ EvaluateUpsideDown
  \/ Aggregate
  \/ RecordDemo
  \/ PauseBeforeRemoval
  \/ RemoveAndResume
  \/ Finish
  \/ Interrupt
  \/ pb2mc_loop_test
  \/ pb2mc_wait
  \/ pb2mc_add_keyframe
  \/ pb2mc_update_meshcat

SpecMirror == MirrorInit /\ [][MirrorNext]_vars

\* The frame algebra as functions of a pose and a frame. The rotations are
\* the products of quarter turns, the positions are on and off the origin,
\* and every orientation comes with both signs of its quaternion.
FrameRotations ==
  LET G == {Eye3, RotX90, RotZ90, RotX180}
  IN  { MatMul3(A, MatMul3(B, C)) : A \in G, B \in G, C \in G }

FramePositions == { <<0, 0, 0>>, <<7, 4, TableZ>> }

QuatNeg(q) == [c \in 1..4 |-> <<0 - q[c][1], 0 - q[c][2]>>]

FramePoses ==
  { PoseList(t, rot2quat(R)) : t \in FramePositions, R \in FrameRotations }
    \cup { PoseList(t, QuatNeg(rot2quat(R))) : t \in FramePositions, R \in FrameRotations }

FramesInit ==
  /\ run = 1
  /\ proc = "running"
  /\ exception = "none"
  /\ pc = "frames"
  /\ args = [parent_class |-> "box_container", child_class |-> "bottle",
             parent_load_pose_type |-> "random_upright",
             child_load_pose_type |-> "random_upright",
             start_iteration |-> 0, num_iterations |-> NumIterations]
  /\ iteration = 0
  /\ body_pose = [parent |-> Unset, child |-> Unset]
  /\ step_sim = FALSE
  /\ rec_run_event = TRUE
  /\ pcd_pts = Unset
  /\ pcd = Unset
  /\ start_parent_pose \in FramePoses
  /\ start_child_pose \in FramePoses
  /\ start_pose_mat = Unset
  /\ relative_trans = Unset
  /\ final_child_pose_mat = Unset
  /\ final_parent_pose = Unset
  /\ final_child_pose = Unset
  /\ final_parent_pcd = Unset
  /\ final_child_pcd = Unset
  /\ parent_upside_down_pose_list = Unset
  /\ final_child_pose_upside_down = Unset
  /\ obj_surf_contacts = 0
  /\ ud_obj_surf_contacts = 0
  /\ success_crit_dict = EmptyDict
  /\ place_success = FALSE
  /\ place_success_list = <<>>
  /\ current_success_rate = 0
  /\ demo_files = EmptyDict
  /\ mc_keyframe = "none"
  /\ mc_pc = "loop"
  /\ rec_stop_event = FALSE
  /\ constraint = NoConstraint
  /\ settled = FALSE

\* The child's start pose converted from the parent's frame to the parent's
\* frame, and the child's start pose matrix composed with its inverse.
RoundTrip ==
  /\ Running("frames")
  /\ final_child_pose' =
       convert_reference_frame(start_child_pose, start_parent_pose, start_parent_pose)
  /\ final_child_pose_mat' =
       matmul(matrix_from_pose(start_child_pose), inv(matrix_from_pose(start_child_pose)))
  /\ pc' = "framed"
  /\ UNCHANGED <<run, proc, exception, args, iteration, simVars, obsVars, relative_trans,
                 final_parent_pose, final_parent_pcd, final_child_pcd, stressVars,
                 evalVars, statVars, demo_files>>
  /\ UNCHANGED <<mcVars, stepVars>>

FramesNext == RoundTrip

SpecFrames == FramesInit /\ [][FramesNext]_vars

\* The two evaluation phases statement by statement, for the order of the
\* simulator calls: set_step_sim, reset_body, the constraints, the sleeps.

\* final_child_pose_mat = relative_trans @ start_child_pose_mat, a short
\* sleep, pb_client.set_step_sim(True).
ComposeHold ==
  /\ Running("compose")
  /\ final_child_pose_mat' = matmul(relative_trans, start_pose_mat.child)
  /\ step_sim' = TRUE
  /\ settled' = FALSE
  /\ pc' = "upright"
  /\ UNCHANGED <<run, proc, exception, args, iteration, body_pose, rec_run_event, obsVars,
                 relative_trans, final_parent_pose, final_child_pose, final_parent_pcd,
                 final_child_pcd, stressVars, evalVars, statVars, demo_files, mcVars,
                 constraint>>

\* The any_pose branch: the parent is reset to its upright pose and the
\* correction is composed on final_child_pose_mat. Then final_parent_pose is
\* read from the simulator and final_child_pose taken from the matrix.
UprightParent ==
  /\ Running("upright")
  /\ LET upright_parent_ori_mat == quat2rot(upright_orientation_dict(args.parent_class))
     IN  IF args.parent_load_pose_type = "any_pose"
         THEN /\ body_pose' =
                   [body_pose EXCEPT
                      !.parent = PoseList(start_parent_pose.pos,
                                          rot2quat(upright_parent_ori_mat))]
              /\ final_child_pose_mat' =
                   matmul(relative_upright_pose_mat(start_pose_mat.parent,
                                                    upright_parent_ori_mat),
                          final_child_pose_mat)
              /\ start_pose_mat' =
                   [start_pose_mat EXCEPT
                      !.parent = start_parent_pose_mat_after_upright(start_pose_mat.parent,
                                                                    upright_parent_ori_mat)]
              /\ settled' = FALSE
         ELSE UNCHANGED <<body_pose, final_child_pose_mat, start_pose_mat, settled>>
  /\ final_parent_pose' = body_pose'.parent
  /\ final_child_pose' = pose_from_matrix(final_child_pose_mat')
  /\ pc' = "place_child"
  /\ UNCHANGED <<run, proc, exception, args, iteration, step_sim, rec_run_event, pcd_pts, pcd,
                 start_parent_pose, start_child_pose, relative_trans, final_parent_pcd,
                 final_child_pcd, stressVars, evalVars, statVars, demo_files, mcVars,
                 constraint>>

\* A faulty variant: stepping is released before the child is reset.
PlaceChildAfterRelease ==
  /\ Running("place_child")
  /\ body_pose' = [body_pose EXCEPT !.child = final_child_pose]
  /\ constraint' = NoConstraint
  /\ final_parent_pcd' = pcd.parent
  /\ final_child_pcd' = transform_pcd(pcd.child, relative_trans)
  /\ step_sim' = FALSE
  /\ settled' = FALSE
  /\ pc' = "release1"
  /\ UNCHANGED <<run, proc, exception, args, iteration, rec_run_event, obsVars,
                 relative_trans, final_child_pose_mat, final_parent_pose, final_child_pose,
                 stressVars, evalVars, statVars, demo_files, mcVars>>

\* The child is reset to final_child_pose, the load constraints of both
\* objects (neither is a rack) are removed, the final clouds are made.
PlaceChild ==
  /\ Running("place_child")
  /\ body_pose' = [body_pose EXCEPT !.child = final_child_pose]
  /\ constraint' = NoConstraint
  /\ final_parent_pcd' = pcd.parent
  /\ final_child_pcd' = transform_pcd(pcd.child, relative_trans)
  /\ settled' = FALSE
  /\ pc' = "release1"
  /\ UNCHANGED <<run, proc, exception, args, iteration, step_sim, rec_run_event, obsVars,
                 relative_trans, final_child_pose_mat, final_parent_pose, final_child_pose,
                 stressVars, evalVars, statVars, demo_files, mcVars>>

\* pb_client.set_step_sim(False) at the end of a phase's resets.
ReleaseStepping(at, to) ==
  /\ Running(at)
  /\ step_sim' = FALSE
  /\ pc' = to
  /\ UNCHANGED <<run, proc, exception, args, iteration, body_pose, rec_run_event, obsVars,
                 placeVars, stressVars, evalVars, statVars, demo_files, mcVars, stepVars>>

\* time.sleep(0.5): the simulator settles for the interval if stepping is
\* not held.
SettleInterval(at, to) ==
  /\ Running(at)
  /\ settled' = ~step_sim
  /\ pc' = to
  /\ UNCHANGED <<run, proc, exception, args, iteration, simVars, obsVars, placeVars,
                 stressVars, evalVars, statVars, demo_files, mcVars, constraint>>

\* The stress test begins: pb_client.set_step_sim(True) and the load
\* constraints removed, if there are any.
StressHold ==
  /\ Running("stress")
  /\ step_sim' = TRUE
  /\ constraint' = NoConstraint
  /\ settled' = FALSE
  /\ pc' = "stress_reset"
  /\ UNCHANGED <<run, proc, exception, args, iteration, body_pose, rec_run_event, obsVars,
                 placeVars, stressVars, evalVars, statVars, demo_files, mcVars>>

\* 'first, reset everything': both bodies back to their start poses.
StressResetToStart ==
  /\ Running("stress_reset")
  /\ body_pose' = [parent |-> start_parent_pose, child |-> start_child_pose]
  /\ settled' = FALSE
  /\ pc' = "stress_parent"
  /\ UNCHANGED <<run, proc, exception, args, iteration, step_sim, rec_run_event, obsVars,
                 placeVars, stressVars, evalVars, statVars, demo_files, mcVars, constraint>>

\* The upside-down pose of the parent is computed, the parent reset to it
\* and constrained to the world there.
StressFlipParent ==
  /\ Running("stress_parent")
  /\ parent_upside_down_pose_list' = pose_from_matrix(upside_down_pose_mat)
  /\ body_pose' = [body_pose EXCEPT !.parent = parent_upside_down_pose_list']
  /\ constraint' = [constraint EXCEPT !.parent = parent_upside_down_pose_list']
  /\ settled' = FALSE
  /\ pc' = "stress_child"
  /\ UNCHANGED <<run, proc, exception, args, iteration, step_sim, rec_run_event, obsVars,
                 placeVars, final_child_pose_upside_down, evalVars, statVars, demo_files,
                 mcVars>>

\* The child's upside-down pose is derived by the two conversions and the
\* child reset to it.
StressPlaceChild ==
  /\ Running("stress_child")
  /\ final_child_pose_upside_down' = convert_to_upside_down
  /\ body_pose' = [body_pose EXCEPT !.child = final_child_pose_upside_down']
  /\ settled' = FALSE
  /\ pc' = "release2"
  /\ UNCHANGED <<run, proc, exception, args, iteration, step_sim, rec_run_event, obsVars,
                 placeVars, parent_upside_down_pose_list, evalVars, statVars, demo_files,
                 mcVars, constraint>>

\* A run with the evaluation phases statement by statement, for both
\* load policies of the parent.
StepNext ==
  \/ Setup
  \/ Sense({[parent |-> {1, 2}, child |-> {1, 2}]})
  \/ InferRelation(RelTransforms)
  \/ Settle
  \/ ComposeHold
  \/ UprightParent
  \/ PlaceChild
  \/ ReleaseStepping("release1", "settle1")
  \/ SettleInterval("settle1", "eval1")
  \/ EvaluatePlacement
  \/ StressHold
  \/ StressResetToStart
  \/ StressFlipParent
  \/ StressPlaceChild
  \/ ReleaseStepping("release2", "settle2")
  \/ SettleInterval("settle2", "eval2")
  \/ EvaluateUpsideDown
  \/ Aggregate
  \/ RecordDemo
  \/ Cleanup
  \/ Finish
  \/ Interrupt

SpecStep == SettleInit /\ [][StepNext]_vars

\* The holder of the stop event sets it: stop_event.set(), at any moment of
\* the run.
SetStop ==
  /\ proc = "running"
  /\ ~rec_stop_event
  /\ rec_stop_event' = TRUE
  /\ UNCHANGED <<run, proc, exception, pc, args, iteration, simVars, obsVars, placeVars,
                 stressVars, evalVars, statVars, demo_files, mc_keyframe, mc_pc, stepVars>>

\* The steps of the mirror thread.
MirrorThreadStep ==
  \/ pb2mc_loop_test
  \/ pb2mc_exit
  \/ pb2mc_wait
  \/ pb2mc_add_keyframe
  \/ pb2mc_update_meshcat

\* The run with the mirror thread and a stop event that gets set. The thread
\* is scheduled: a step of it that stays possible is taken. The main loop is
\* not assumed to move on: infer_relation_task and the simulator calls are
\* external and may block.
StopNext ==
  \/ MirrorNext
  \/ SetStop
  \/ pb2mc_exit

SpecStop == MirrorInit /\ [][StopNext]_vars /\ WF_vars(MirrorThreadStep)

\* The fusion as a function of the per-camera arrays. The arrays of the
\* parent are drawn from two families; the child's are fixed.
\* Small clouds: up to MaxCamPts points per camera, on a line and off it.
FusionPoints == { <<0, 0, 0>>, <<6, 0, 0>>, <<8, 0, 0>>, <<9, 0, 0>>, <<0, 4, 3>> }
RECURSIVE SeqsUpTo(_, _)
SeqsUpTo(S, n) ==
  IF n = 0 THEN { <<>> }
  ELSE LET shorter == SeqsUpTo(S, n - 1)
       IN  shorter \cup { Append(q, x) : q \in {r \in shorter : Len(r) = n - 1}, x \in S }
SmallClouds ==
  { <<a, b>> : a \in SeqsUpTo(FusionPoints, MaxCamPts), b \in SeqsUpTo(FusionPoints, MaxCamPts) }

\* Synthetic clouds: per far point, 19 points within 0.05 (1 unit) of a
\* centre, and the far points at 5.0 (100 units) from it.
NearOffsets ==
  << <<0, 0, 0>>, <<1, 0, 0>>, <<-1, 0, 0>>, <<0, 1, 0>>, <<0, -1, 0>>, <<0, 0, 1>>, <<0, 0, -1>> >>
FarOffsets ==
  { <<100, 0, 0>>, <<-100, 0, 0>>, <<60, 80, 0>>, <<-60, -80, 0>>, <<0, 60, 80>>, <<0, 0, -100>> }
Centres == { <<0, 0, 0>>, <<7, 4, TableZ>> }
FarTuples == UNION { [1..k -> FarOffsets] : k \in 1..MaxFar }
SyntheticCloud(c, far, k, step, far_first) ==
  LET near == [i \in 1..(19 * Len(far)) |->
                 VAdd(c, NearOffsets[((i * step + k) % Len(NearOffsets)) + 1])]
      farpts == [i \in 1..Len(far) |-> VAdd(c, far[i])]
      all == IF far_first THEN farpts \o near ELSE near \o farpts
      half == Len(all) \div 2
  IN  << SubSeq(all, 1, half), SubSeq(all, half + 1, Len(all)) >>
SyntheticClouds ==
  { SyntheticCloud(c, far, k, step, ff) :
      c \in Centres, far \in FarTuples, k \in 0..(Len(NearOffsets) - 1),
      step \in {0, 1}, ff \in BOOLEAN }

FusionInit ==
  /\ run = 1
  /\ proc = "running"
  /\ exception = "none"
  /\ pc = "fuse"
  /\ args = [parent_class |-> "box_container", child_class |-> "bottle",
             parent_load_pose_type |-> "random_upright",
             child_load_pose_type |-> "random_upright",
             start_iteration |-> 0, num_iterations |-> NumIterations]
  /\ iteration = 0
  /\ body_pose = [parent |-> Unset, child |-> Unset]
  /\ step_sim = FALSE
  /\ rec_run_event = TRUE
  /\ \E cloud \in SmallClouds \cup SyntheticClouds :
       pcd_pts = [parent |-> cloud, child |-> << << <<6, -5, TableZ>> >>, <<>> >>]
  /\ pcd = Unset
  /\ start_parent_pose = Unset
  /\ start_child_pose = Unset
  /\ start_pose_mat = Unset
  /\ relative_trans = Unset
  /\ final_child_pose_mat = Unset
  /\ final_parent_pose = Unset
  /\ final_child_pose = Unset
  /\ final_parent_pcd = Unset
  /\ final_child_pcd = Unset
  /\ parent_upside_down_pose_list = Unset
  /\ final_child_pose_upside_down = Unset
  /\ obj_surf_contacts = 0
  /\ ud_obj_surf_contacts = 0
  /\ success_crit_dict = EmptyDict
  /\ place_success = FALSE
  /\ place_success_list = <<>>
  /\ current_success_rate = 0
  /\ demo_files = EmptyDict
  /\ mc_keyframe = "none"
  /\ mc_pc = "loop"
  /\ rec_stop_event = FALSE
  /\ constraint = NoConstraint
  /\ settled = FALSE

FusionNext == Fusion

SpecFusion == FusionInit /\ [][FusionNext]_vars

\* --------------------------------------------------------------- typing

TypeOK ==
  /\ run \in 1..MaxRuns
  /\ proc \in {"running", "exited", "crashed", "interrupted"}
  /\ (proc = "crashed") <=> (exception # "none")
  /\ pc \in {"setup", "setup_child", "sense", "infer", "compose", "eval1", "stress", "eval2",
             "aggregate", "record", "cleanup", "fuse", "fused", "frames", "framed",
             "inferring", "removing", "upright", "place_child", "release1", "settle1",
             "stress_reset", "stress_parent", "stress_child", "release2", "settle2"}
  /\ iteration \in 0..NumIterations
  /\ place_success \in BOOLEAN
  /\ DOMAIN demo_files \subseteq 0..(NumIterations - 1)
  /\ mc_keyframe \in {"none", "setup", "setup_child", "sense", "infer", "compose", "eval1",
                       "stress", "eval2", "aggregate", "record", "cleanup",
                       "inferring", "removing"}
  /\ mc_pc \in {"loop", "wait", "add_keyframe", "update_meshcat", "done"}
  /\ rec_stop_event \in BOOLEAN
  /\ settled \in BOOLEAN
  /\ DOMAIN constraint = Roles

\* ----------------------------------------------------------------- claims

\* The bottle criterion applies to this run's class pair.
BottlePair == args.parent_class = "box_container" /\ args.child_class = "bottle"
\* The trial's record file exists and is this run's.
RecordedThisRun ==
  iteration \in DOMAIN demo_files /\ demo_files[iteration].run = run

\* C1: once the recorder step of a trial is done, the record file
\* demo_aug_<iteration>.npz exists iff place_success is true; if any
\* criterion is false there is no record for that trial index.
C1_RecordIffSuccess ==
  pc = "cleanup" =>
    /\ (iteration \in DOMAIN demo_files) <=> place_success
    /\ place_success => demo_files[iteration].data.success
    /\ (\E k \in DOMAIN success_crit_dict : ~success_crit_dict[k])
         => iteration \notin DOMAIN demo_files

\* A failed second trial leaves no file beside the first trial's record.
C1_Witness ==
  /\ pc = "cleanup"
  /\ iteration = 1
  /\ ~place_success
  /\ DOMAIN demo_files = {0}

\* C2: fell_off_upside_down is true iff the contact query after the
\* upside-down settle returns no contact; when contact remains the aggregate
\* is false and no record is written, whatever the other criteria are.
C2_UpsideDownContactRejects ==
  /\ pc \in {"aggregate", "record", "cleanup"}
       => success_crit_dict["fell_off_upside_down"] = (ud_obj_surf_contacts = 0)
  /\ (pc \in {"record", "cleanup"} /\ ud_obj_surf_contacts > 0) => ~place_success
  /\ (pc = "cleanup" /\ ud_obj_surf_contacts > 0) => iteration \notin DOMAIN demo_files

\* Contact remains after the flip while every other criterion is true.
C2_Witness ==
  /\ pc = "cleanup"
  /\ ud_obj_surf_contacts > 0
  /\ BottlePair
  /\ success_crit_dict["touching_surf"]
  /\ success_crit_dict["bottle_upright"]
  /\ ~place_success

\* C3: place_success is the AND of exactly the populated criteria:
\* touching_surf and fell_off_upside_down always, bottle_upright only for
\* a box_container parent with a bottle child.
C3_AggregateOfPresentCriteria ==
  pc \in {"record", "cleanup"} =>
    /\ DOMAIN success_crit_dict =
         {"touching_surf", "fell_off_upside_down"}
           \cup (IF BottlePair THEN {"bottle_upright"} ELSE {})
    /\ place_success <=>
         /\ success_crit_dict["touching_surf"]
         /\ success_crit_dict["fell_off_upside_down"]
         /\ BottlePair => success_crit_dict["bottle_upright"]

\* A bottle on a parent that is no container succeeds on two criteria.
C3_Witness ==
  /\ pc = "record"
  /\ args.parent_class = "mug"
  /\ args.child_class = "bottle"
  /\ place_success

\* C4: the criteria are measured in two passes, the first (touching_surf,
\* and bottle_upright when present) before the stress test and the second
\* (fell_off_upside_down) after it, and the aggregate, computed after the
\* second pass, is the AND of the outcomes of both.
C4_BothPassesInAggregate ==
  LET first == {"touching_surf"} \cup (IF BottlePair THEN {"bottle_upright"} ELSE {})
  IN  /\ pc \in {"setup", "setup_child", "sense", "infer", "compose", "eval1"}
           => DOMAIN success_crit_dict = {}
      /\ pc \in {"stress", "eval2"}
           => /\ DOMAIN success_crit_dict = first
              /\ success_crit_dict["touching_surf"] = (obj_surf_contacts > 0)
      /\ pc \in {"aggregate", "record", "cleanup"}
           => /\ DOMAIN success_crit_dict = first \cup {"fell_off_upside_down"}
              /\ success_crit_dict["touching_surf"] = (obj_surf_contacts > 0)
              /\ success_crit_dict["fell_off_upside_down"] = (ud_obj_surf_contacts = 0)
      /\ pc \in {"record", "cleanup"}
           => place_success = (\A k \in DOMAIN success_crit_dict : success_crit_dict[k])

\* The first pass failed, the second passed, and the aggregate is false.
C4_Witness ==
  /\ pc = "record"
  /\ obj_surf_contacts = 0
  /\ ud_obj_surf_contacts = 0
  /\ ~place_success

C6_NeverOverwritten ==
  [][\A i \in DOMAIN demo_files :
       i \in DOMAIN demo_files' /\ demo_files'[i] = demo_files[i]]_vars

\* The record files this run has written, and the successes it has counted.
RecordsOfRun == {i \in DOMAIN demo_files : demo_files[i].run = run}
RecordPending == pc = "record" /\ place_success

\* C6 as amended: within one run there is exactly one record file per
\* recorded trial index, and a file the run has written is not written again
\* by that run; no file is ever removed. (A later run on the same directory
\* that records the same index replaces the file.)
C6_AppendOnlyWithinRun ==
  [][/\ \A i \in DOMAIN demo_files :
          /\ i \in DOMAIN demo_files'
          /\ demo_files[i].run = run' => demo_files'[i] = demo_files[i]
     /\ Cardinality(RecordsOfRun') + (IF RecordPending' THEN 1 ELSE 0)
          = SumTrue(place_success_list')
     /\ \A i \in RecordsOfRun' : args'.start_iteration <= i /\ i <= iteration']_vars

\* The second run has recorded both indices, each once.
C6_Witness ==
  /\ run = 2
  /\ pc = "cleanup"
  /\ DOMAIN demo_files = {0, 1}
  /\ demo_files[0].run = 2
  /\ demo_files[1].run = 2

\* An uncaught exception ends the process in this step.
ErrorRaised == exception = "none" /\ exception' # "none"

\* C7 as stated: when an error discards a trial, the iteration counter
\* advances, the statistics and the records stay as they are, and the run
\* goes on with the next iteration.
C7_ErrorDiscardsTrialOnly ==
  [][ErrorRaised =>
       /\ proc' = "running"
       /\ iteration' = iteration + 1
       /\ pc' = "setup"
       /\ place_success_list' = place_success_list
       /\ demo_files' = demo_files]_vars

\* Some role has no point from any camera in this trial.
MissingObservation ==
  /\ pc \notin {"setup", "setup_child", "sense"}
  /\ \E role \in Roles : Concat(pcd_pts[role]) = <<>>

\* C8 as stated: with a role missing from every camera the trial stops at
\* the fusion: no relative transform is requested or composed for it, and
\* the trial is not counted in the statistics.
C8_MissingObservationStopsTrial ==
  MissingObservation =>
    /\ pc = "infer"
    /\ Len(place_success_list) = iteration - args.start_iteration

\* C9: a trial that has not completed its recorder step has no record of
\* its own, wherever the process is interrupted in it (a file of that index
\* can only be one an earlier run left); the record is written last, after
\* both contact evaluations and the aggregate.
C9_NoRecordOfIncompleteTrial ==
  /\ pc # "cleanup" => ~RecordedThisRun
  /\ (run = 1 /\ pc # "cleanup") => iteration \notin DOMAIN demo_files
  /\ RecordedThisRun =>
       /\ {"touching_surf", "fell_off_upside_down"} \subseteq DOMAIN success_crit_dict
       /\ place_success
       /\ place_success_list # <<>>
       /\ place_success_list[Len(place_success_list)]

\* Interrupted with a successful aggregate, just before the record is written.
C9_Witness ==
  /\ proc = "interrupted"
  /\ pc = "record"
  /\ place_success
  /\ iteration = 1
  /\ DOMAIN demo_files = {0}

\* How many trials this run has evaluated.
Evaluated ==
  (iteration - args.start_iteration) + (IF pc \in {"record", "cleanup"} THEN 1 ELSE 0)

\* C10: each evaluated trial adds exactly one entry to the success list, a
\* true one iff its aggregate is true; the reported rate is successes/count;
\* the list is never reset or shortened within a run; so
\* 0 <= successes <= count = number of evaluated trials.
C10_RunningStatistics ==
  [][LET count == Len(place_success_list)
         count2 == Len(place_success_list')
         successes == SumTrue(place_success_list')
     IN  /\ count2 = Evaluated'
         /\ 0 <= successes /\ successes <= count2
         /\ count2 >= count
         /\ SubSeq(place_success_list', 1, count) = place_success_list
         /\ count2 > count =>
              /\ count2 = count + 1
              /\ place_success_list'[count2] = (\A k \in DOMAIN success_crit_dict : success_crit_dict[k])
              /\ place_success_list'[count2] = place_success'
         /\ count2 > 0 =>
              /\ current_success_rate' * count2 <= 1000 * successes
              /\ 1000 * successes < (current_success_rate' + 1) * count2]_vars

\* Two trials evaluated, one success and one failure: the rate is 0.5.
C10_Witness ==
  /\ pc = "cleanup"
  /\ place_success_list = <<TRUE, FALSE>>
  /\ current_success_rate = 500

\* The trial has been composed: the final poses are assigned.
Composed == pc \in {"eval1", "stress", "eval2", "aggregate", "record", "cleanup"}
AnyPoseParent == args.parent_load_pose_type = "any_pose"

\* The start poses as matrices, the relative transform applied to the
\* child's start pose, the upright pose of the parent and U.
Sp == matrix_from_pose(start_parent_pose)
Sc == matrix_from_pose(start_child_pose)
UprightPose ==
  Mat4(quat2rot(upright_orientation_dict(args.parent_class)), start_parent_pose.pos)
U == matmul(UprightPose, inv(Sp))

\* C11: under any_pose the parent's final pose is U o Sp, the upright pose,
\* and the child's final pose in the parent's final frame equals R o Sc in
\* the parent's start frame: inv(U o Sp) o (U o R o Sc) = inv(Sp) o (R o Sc).
C11_UprightCorrectionKeepsRelation ==
  (Composed /\ AnyPoseParent) =>
    /\ matrix_from_pose(final_parent_pose) = matmul(U, Sp)
    /\ matrix_from_pose(final_parent_pose) = UprightPose
    /\ matmul(inv(matrix_from_pose(final_parent_pose)), final_child_pose_mat)
         = matmul(inv(Sp), matmul(relative_trans, Sc))
    /\ matmul(inv(matrix_from_pose(final_parent_pose)), matrix_from_pose(final_child_pose))
         = matmul(inv(Sp), matmul(relative_trans, Sc))

\* A tilted parent was set upright and a proper relative transform applied.
C11_Witness ==
  /\ pc = "eval1"
  /\ AnyPoseParent
  /\ U # Eye4
  /\ relative_trans # Eye4
  /\ final_parent_pose # start_parent_pose

\* C12: the final child pose is R o Sc when the parent's load pose type is
\* not any_pose and U o R o Sc when it is, with U = upright o inv(Sp) and
\* upright the parent's start position with the class's upright orientation.
C12_FinalChildPose ==
  Composed =>
    /\ final_child_pose_mat =
         (IF AnyPoseParent THEN matmul(U, matmul(relative_trans, Sc))
          ELSE matmul(relative_trans, Sc))
    /\ final_child_pose = pose_from_matrix(final_child_pose_mat)
    /\ UprightPose.pos = start_parent_pose.pos
    /\ UprightPose.rot = quat2rot(upright_orientation_dict(args.parent_class))
    /\ pc = "eval1" => body_pose.child = final_child_pose

\* The corrected final child pose differs from the uncorrected one.
C12_Witness ==
  /\ pc = "stress"
  /\ AnyPoseParent
  /\ relative_trans # Eye4
  /\ final_child_pose_mat # matmul(relative_trans, Sc)

\* C13 as stated: when the parent's load pose type is not any_pose, the
\* parent's final pose, in the trial and in the record, equals the parent's
\* start-pose snapshot.
C13_ParentFinalIsStartSnapshot ==
  (Composed /\ ~AnyPoseParent) =>
    /\ final_parent_pose = start_parent_pose
    /\ (pc = "cleanup" /\ place_success) =>
         demo_files[iteration].data.multi_obj_final_obj_pose.parent
           = demo_files[iteration].data.multi_obj_start_obj_pose.parent

\* The stress test has derived its poses.
Stressed == pc \in {"eval2", "aggregate", "record", "cleanup"}

UpsideDownOf(sp, sc, rel, upright_ori, any_pose) ==
  LET spm == matrix_from_pose(sp)
      placed == matmul(rel, matrix_from_pose(sc))
      final == IF any_pose
               THEN matmul(matmul(Mat4(quat2rot(upright_ori), sp.pos), inv(spm)), placed)
               ELSE placed
      ud == Mat4(MatMul3(RotX180, quat2rot(upright_ori)),
                 VAdd(sp.pos, <<0, 0, UpsideDownClearance>>))
  IN  [parent |-> pose_from_matrix(ud),
       child |-> pose_from_matrix(matmul(inv(ud), matmul(spm, final)))]

\* C15: the upside-down parent pose and the child's upside-down pose are
\* determined by the start-pose snapshot, the relative transform and the
\* upright orientation of the parent's class (with the run's load pose type):
\* any two derivations from the same inputs give the same poses, whatever the
\* simulator's bodies have done in between.
C15_UpsideDownDerivationDeterministic ==
  Stressed =>
    LET d == UpsideDownOf(start_parent_pose, start_child_pose, relative_trans,
                          upright_orientation_dict(args.parent_class), AnyPoseParent)
    IN  /\ parent_upside_down_pose_list = d.parent
        /\ final_child_pose_upside_down = d.child

\* The derivation ran after the simulator had moved the parent away from
\* its start-pose snapshot.
C15_Witness ==
  /\ pc = "eval2"
  /\ ~AnyPoseParent
  /\ final_parent_pose # start_parent_pose
  /\ relative_trans # Eye4

\* The square of n times the distance of point p to the mean of the n
\* points pts, and of n times the outlier radius.
ScaledDistSq(p, pts) ==
  LET n == Len(pts)
      sum == VSum(pts)
      d == <<n * p[1] - sum[1], n * p[2] - sum[2], n * p[3] - sum[3]>>
  IN  Dot(d, d)
ScaledRadiusSq(pts) == OutlierRadius * OutlierRadius * Len(pts) * Len(pts)

\* The points of pts in order, without those farther from the mean of pts
\* than the radius; those exactly at the radius kept or not.
WithinRadius(pts, at_radius_kept) ==
  LET keep(p) == \/ ScaledDistSq(p, pts) < ScaledRadiusSq(pts)
                 \/ at_radius_kept /\ ScaledDistSq(p, pts) = ScaledRadiusSq(pts)
  IN  SelectSeq(pts, keep)

\* C16 as stated: the fused cloud of a role is the concatenation of its
\* per-camera points without exactly the points farther than the radius from
\* the centroid of the concatenation: points at distance <= radius are kept.
C16_KeepsUpToRadius ==
  pc = "fused" =>
    \A role \in Roles : pcd[role] = WithinRadius(Concat(pcd_pts[role]), TRUE)

\* C16 as amended: the fused cloud keeps exactly the points at distance
\* strictly less than the radius from the centroid of the concatenation, in
\* order; points at the radius or farther are dropped; the centroid is
\* computed once and the result is not filtered again.
C16_KeepsBelowRadius ==
  pc = "fused" =>
    \A role \in Roles :
      LET all == Concat(pcd_pts[role])
      IN  /\ pcd[role] = WithinRadius(all, FALSE)
          /\ \A i \in 1..Len(all) :
               ScaledDistSq(all[i], all) >= ScaledRadiusSq(all) =>
                 \A j \in 1..Len(pcd[role]) : pcd[role][j] # all[i]

\* A point exactly at the radius from the centroid was dropped.
C16_Witness ==
  /\ pc = "fused"
  /\ LET all == Concat(pcd_pts.parent)
     IN  /\ \E i \in 1..Len(all) : ScaledDistSq(all[i], all) = ScaledRadiusSq(all)
         /\ Len(pcd.parent) < Len(all)
         /\ pcd.parent # <<>>

\* A synthetic cloud around centre c: 95% of the points within 0.05 of c
\* and 5% of them at 5.0 from c.
DistSq(p, c) == Dot(VAdd(p, VNeg(c)), VAdd(p, VNeg(c)))
IsNear(p, c) == DistSq(p, c) <= 1
IsFar(p, c) == DistSq(p, c) = 100 * 100
IsSynthetic(pts, c) ==
  /\ pts # <<>>
  /\ 100 * Cardinality({i \in 1..Len(pts) : IsNear(pts[i], c)}) = 95 * Len(pts)
  /\ 100 * Cardinality({i \in 1..Len(pts) : IsFar(pts[i], c)}) = 5 * Len(pts)
NearPart(pts, c) == LET near(p) == IsNear(p, c) IN SelectSeq(pts, near)
FarSum(pts, c) ==
  LET far(p) == IsFar(p, c)
      farpts == SelectSeq(pts, far)
  IN  VAdd(VSum(farpts), <<-Len(farpts) * c[1], -Len(farpts) * c[2], -Len(farpts) * c[3]>>)

\* C17 as stated: from a synthetic cloud the fusion returns exactly the
\* near points, wherever the far points are on the sphere.
C17_ExactlyTheInliers ==
  pc = "fused" =>
    \A c \in Centres :
      IsSynthetic(Concat(pcd_pts.parent), c) =>
        pcd.parent = NearPart(Concat(pcd_pts.parent), c)

\* C17 as amended: from a synthetic cloud the fusion removes every far
\* point; it returns exactly the near points when the far points' offsets
\* from the centre sum to zero (antipodal pairs); with a single far point the
\* centroid moves 0.25 towards it and near points are dropped as well.
C17_InliersWhenFarPointsBalance ==
  pc = "fused" =>
    \A c \in Centres :
      LET all == Concat(pcd_pts.parent)
      IN  IsSynthetic(all, c) =>
            /\ \A j \in 1..Len(pcd.parent) : ~IsFar(pcd.parent[j], c)
            /\ FarSum(all, c) = <<0, 0, 0>> => pcd.parent = NearPart(all, c)
            /\ Len(all) = 20 => Len(pcd.parent) < 19

\* A synthetic cloud with an antipodal pair of far points was fused.
C17_Witness ==
  /\ pc = "fused"
  /\ \E c \in Centres :
       LET all == Concat(pcd_pts.parent)
       IN  /\ IsSynthetic(all, c)
           /\ Len(all) = 40
           /\ FarSum(all, c) = <<0, 0, 0>>
           /\ Len(pcd.parent) = 38

\* The main loop is inside the insertion of the trial's objects: the parent
\* is in the simulator and the child is not yet.
InsertionInProgress == proc = "running" /\ pc = "setup_child"

\* C18 as stated: the mirror thread is paused (its run event is cleared)
\* throughout the mutation-sensitive windows of the main loop, here the object
\* insertion, so it takes no keyframe while the insertion is in progress.
C18_MirrorPausedDuringMutation ==
  /\ InsertionInProgress => ~rec_run_event
  /\ mc_keyframe # "setup_child"

\* C19: in a persisted record the child's final cloud is the child's fused
\* start cloud transformed point by point by the relative transform (as many
\* points, in the same order), the parent's final cloud is the parent's fused
\* start cloud, and the start clouds of the record are still the fused
\* clouds of the observation.
C19_FinalCloudsFromStartClouds ==
  (pc = "cleanup" /\ place_success) =>
    LET d == demo_files[iteration].data
        start == d.multi_obj_start_pcd
        final == d.multi_obj_final_pcd
    IN  /\ Len(final.child) = Len(start.child)
        /\ \A i \in 1..Len(start.child) :
             final.child[i] =
               VAdd(MatVec(relative_trans.rot, start.child[i]), relative_trans.pos)
        /\ final.parent = start.parent
        /\ \A role \in Roles : start[role] = FusePcd(pcd_pts[role])
        /\ \A role \in Roles : start[role] = pcd[role]

\* A record whose child cloud was moved by the transform, next to a parent
\* cloud that was not.
C19_Witness ==
  /\ pc = "cleanup"
  /\ place_success
  /\ iteration \in DOMAIN demo_files
  /\ Len(demo_files[iteration].data.multi_obj_start_pcd.parent) > 0
  /\ demo_files[iteration].data.multi_obj_final_pcd.child
       # demo_files[iteration].data.multi_obj_start_pcd.child
  /\ demo_files[iteration].data.multi_obj_final_pcd.child
       # demo_files[iteration].data.multi_obj_final_pcd.parent

\* C20: a pose converted from a frame to the same frame is the pose itself
\* (the same position, the same rotation), and a pose composed with its
\* inverse is the identity.
C20_FrameRoundTrip ==
  pc = "framed" =>
    /\ final_child_pose.pos = start_child_pose.pos
    /\ matrix_from_pose(final_child_pose) = matrix_from_pose(start_child_pose)
    /\ final_child_pose_mat = Eye4

\* A pose and a frame that are both rotated and away from the origin, and
\* different.
C20_Witness ==
  /\ pc = "framed"
  /\ matrix_from_pose(start_child_pose).rot \notin {Eye3, RotX90, RotZ90, RotX180}
  /\ start_child_pose.pos # <<0, 0, 0>>
  /\ matrix_from_pose(start_parent_pose).rot # Eye3
  /\ start_parent_pose.pos # <<0, 0, 0>>
  /\ matrix_from_pose(start_parent_pose) # matrix_from_pose(start_child_pose)

\* The trial has its start-pose snapshot and has not been cleaned up.
SnapshotTaken == pc \in {"infer", "compose", "eval1", "stress", "eval2", "aggregate", "record"}

\* C21: from the snapshot to the end of the trial no step modifies
\* start_parent_pose, start_child_pose or their matrix forms, and the
\* matrices stay the matrices of the two pose lists, whatever happens to the
\* bodies in the simulator.
C21_SnapshotNeverModified ==
  [][SnapshotTaken =>
       /\ start_parent_pose' = start_parent_pose
       /\ start_child_pose' = start_child_pose
       /\ start_pose_mat' = start_pose_mat
       /\ start_pose_mat'.parent = matrix_from_pose(start_parent_pose')
       /\ start_pose_mat'.child = matrix_from_pose(start_child_pose')]_vars

\* After the stress test of a trial with upright correction: both bodies
\* are away from their start poses and the snapshot is there.
C21_Witness ==
  /\ pc = "eval2"
  /\ args.parent_load_pose_type = "any_pose"
  /\ body_pose.parent # start_parent_pose
  /\ body_pose.child # start_child_pose
  /\ final_parent_pose # start_parent_pose
  /\ start_pose_mat.parent = matrix_from_pose(start_parent_pose)

\* The child's pose relative to the parent's, both in the world frame.
RelativeTo(parent_pose, child_pose) ==
  matmul(inv(matrix_from_pose(parent_pose)), matrix_from_pose(child_pose))

\* C22 as stated: once the stress test is set up, the child's pose relative
\* to the upside-down parent is the child's final pose relative to the
\* parent's final pose in the placement evaluated first, with and without the
\* upright correction of the parent.
C22_StressTestRecreatesPlacement ==
  Stressed =>
    RelativeTo(parent_upside_down_pose_list, final_child_pose_upside_down)
      = RelativeTo(final_parent_pose, final_child_pose)

\* The main loop is between a pause_mc_thread(True) that has returned and
\* the pause_mc_thread(False) that follows it.
InPauseWindow == proc = "running" /\ pc \in {"inferring", "removing"}

\* C23 as stated: once pause_mc_thread(True) has returned and until the
\* thread is resumed, the mirror thread takes no add_keyframe step and no
\* update_meshcat_current_state step.
C23_NoMirrorStepWhilePaused ==
  [][(InPauseWindow /\ ~rec_run_event /\ ~rec_run_event') =>
       /\ mc_keyframe' = mc_keyframe
       /\ mc_pc \in {"add_keyframe", "update_meshcat"} => mc_pc' = mc_pc]_vars

\* The mirror thread has ended: it left its loop, or the process it is a
\* daemon of has ended.
MirrorThreadEnded == mc_pc = "done" \/ proc # "running"

PhaseReset ==
  /\ pc \in {"compose", "upright", "place_child", "release1", "settle1", "eval1",
             "stress", "stress_reset", "stress_parent", "stress_child", "release2",
             "settle2", "eval2"}
  /\ pc' # pc
  /\ body_pose' # body_pose

\* The contact query of the first phase, and of the upside-down phase.
FirstQuery == pc = "eval1" /\ pc' = "stress"
UpsideDownQuery == pc = "eval2" /\ pc' = "aggregate"

\* C24: in both evaluation phases every body reset is made while stepping
\* is held; each contact query is made with stepping released, after a
\* settle interval and with no reset since the release; and the upside-down
\* query is made with the parent constrained at the upside-down pose and the
\* child unconstrained.
C24_ResetsHeldQueriesSettled ==
  [][/\ PhaseReset => (step_sim /\ step_sim')
     /\ (FirstQuery \/ UpsideDownQuery) => (~step_sim /\ settled)
     /\ UpsideDownQuery =>
          /\ constraint.parent = parent_upside_down_pose_list
          /\ body_pose.parent = parent_upside_down_pose_list
          /\ constraint.child = Unset]_vars

\* The upside-down query is about to be made in a trial with upright
\* correction: the parent and the child were reset in both phases.
C24_Witness ==
  /\ pc = "eval2"
  /\ proc = "running"
  /\ args.parent_load_pose_type = "any_pose"
  /\ settled
  /\ ~step_sim
  /\ final_parent_pose # start_parent_pose
  /\ body_pose.child = final_child_pose_upside_down
  /\ obj_surf_contacts > 0

====
